---- MODULE Spec2Model ----
(***************************************************************************)
(* Model of the table column editor of                                     *)
(* src/pages/data-sources/[dataSourceId]/tables/[tableName]/edit.tsx.      *)
(*                                                                         *)
(* FieldsEditor keeps two pieces of React state, `columns` (the working    *)
(* sequence) and `column` (the selected column), next to the prop          *)
(* `initialColumns` (the baseline).  ColumnEditor renders the selected     *)
(* column and owns the two constraint effects (required / nullable).       *)
(*                                                                         *)
(* Encoding of JavaScript values:                                          *)
(*   object            -> function with a domain of strings (a record)     *)
(*   array (in a Column) -> sequence                                       *)
(*   undefined `column` -> <<>>, a defined one -> <<c>>                    *)
(*   option path "a.b"  -> <<"a", "b">> (the result of name.split("."))    *)
(*   a value of an array-typed leaf inside the diff / the change-set is    *)
(*   tagged: JsArray(s) is a real array, JsObject(f) is the index-keyed    *)
(*   object deep-object-diff produces for two arrays, keys "0", "1", ...   *)
(***************************************************************************)
EXTENDS Integers, Sequences, FiniteSets, TLC

VARIABLES
  initialColumns, \* the `columns` prop of FieldsEditor: the baseline
  columns,        \* useState `columns`: the working sequence
  column,         \* useState `column`: <<>> or <<the selected column>>
  deps,           \* the effect dependencies of the last commit of ColumnEditor
  phase,          \* "mount": the mount effect of FieldsEditor is pending;
                  \* "render": state was set, render and effects are pending;
                  \* "idle": nothing is pending, the user can act
  edits,          \* number of user events handled so far
  lastEdit,       \* the last user event: the path set, the selected column
                  \* before it and the column the handler built; `edited`
                  \* tells whether an option was set by the user so far
  requests,       \* the bodies handed to updateTable, in order
  mutations,      \* one entry per request, in the same order: its status
                  \* and the working sequence it was sent for
  reloaded,       \* the request whose success loaded the present baseline,
                  \* 0 while the baseline is the one the page was opened on
  api             \* the record API route: for every request in flight, the
                  \* request, the position of its handler, the response and
                  \* the queries issued

editor == <<initialColumns, columns, column, deps, phase, edits, lastEdit,
            requests, mutations, reloaded>>

vars == <<initialColumns, columns, column, deps, phase, edits, lastEdit,
          requests, mutations, reloaded, api>>

save == <<requests, mutations, reloaded>>

\* Bound on the number of user events (edits and selections) of one session.
MaxEdits == 3

\* Bound on the number of requests the record API route handles at a time.
MaxInFlight == 2

\* The value of a deleted key in a deep-object-diff result.
Undefined == "<undefined>"

\* NULL_VALUES (values only), in the order the checkboxes are rendered.
NULL_VALUES == <<"", "null", "0">>

\* The values of the four visibility checkboxes, in rendering order.
VisibilityFlags == <<"index", "show", "edit", "new">>

\* Field types offered by the select, and the texts typed into the inputs.
FieldTypes == {"Text", "DateTime"}

Texts == {"", "a"}

FieldOptionKeys == {"options", "placeholder"}

Range(s) == {s[i] : i \in 1..Len(s)}

EmptyObject == [k \in {} |-> TRUE]

JsArray(s) == [type |-> "array", items |-> s]

JsObject(f) == [type |-> "object", entries |-> f]

\* { ...a, ...b }
Spread(a, b) == b @@ a

\* A Column as the load interface returns it.
MkColumn(name, required, nullable, nullValues, dsNullable) ==
  [name |-> name,
   fieldType |-> "Text",
   baseOptions |-> [label |-> "", placeholder |-> "", help |-> "",
                    defaultValue |-> "", required |-> required,
                    nullable |-> nullable, nullValues |-> nullValues,
                    disconnected |-> FALSE, visibility |-> VisibilityFlags],
   fieldOptions |-> [options |-> "", placeholder |-> ""],
   dataSourceInfo |-> [nullable |-> dsNullable]]

\* The tables the editor is opened on: every column satisfies I1, I2 and I3.
Baselines ==
  {<<a, b>> :
     a \in {MkColumn("id", TRUE, FALSE, <<>>, FALSE),
            MkColumn("id", TRUE, FALSE, <<>>, TRUE)},
     b \in {MkColumn("email", FALSE, FALSE, <<>>, TRUE),
            MkColumn("email", FALSE, TRUE, <<"">>, TRUE),
            MkColumn("email", TRUE, FALSE, <<"null">>, TRUE)}}

----------------------------------------------------------------------------
(* deep-object-diff, specialised to the shape of Column[]                   *)

Max(a, b) == IF a > b THEN a ELSE b

\* parseInt(key, 10) + 1: the sequence index of an array key.
IndexOfKey(k, n) == CHOOSE i \in 1..n : ToString(i - 1) = k

\* diff(l, r) of two arrays of primitives: an object keyed by array index.
diffArray(l, r) ==
  LET n == Max(Len(l), Len(r))
      changed == {i \in 1..n : i > Len(l) \/ i > Len(r) \/ l[i] # r[i]}
  IN  [k \in {ToString(i - 1) : i \in changed} |->
         LET i == IndexOfKey(k, n)
         IN  IF i > Len(r) THEN Undefined ELSE r[i]]

\* diff(l, r) of two objects whose values are primitives.
diffFlat(l, r) ==
  LET deleted == DOMAIN l \ DOMAIN r
      updated == {k \in DOMAIN r : k \notin DOMAIN l \/ l[k] # r[k]}
  IN  [k \in deleted \cup updated |->
         IF k \in deleted THEN Undefined ELSE r[k]]

ArrayKeys == {"visibility", "nullValues"}

\* diff(l, r) of two baseOptions objects.
diffBaseOptions(l, r) ==
  LET deleted == DOMAIN l \ DOMAIN r
      added   == DOMAIN r \ DOMAIN l
      common  == DOMAIN r \cap DOMAIN l
      updated == {k \in common :
                    IF k \in ArrayKeys
                    THEN DOMAIN diffArray(l[k], r[k]) # {}
                    ELSE l[k] # r[k]}
  IN  [k \in deleted \cup added \cup updated |->
         IF k \in deleted THEN Undefined
         ELSE IF k \in ArrayKeys
              THEN IF k \in added THEN JsArray(r[k])
                   ELSE JsObject(diffArray(l[k], r[k]))
              ELSE r[k]]

NestedKeys == {"baseOptions", "fieldOptions", "dataSourceInfo"}

diffNested(k, l, r) ==
  IF k = "baseOptions" THEN diffBaseOptions(l, r) ELSE diffFlat(l, r)

\* A diff of two Column objects that does not look into fieldOptions.
diffColumn_IgnoresFieldOptions(l, r) ==
  LET updated == {k \in (DOMAIN r \cap DOMAIN l) \ {"fieldOptions"} :
                    IF k \in NestedKeys
                    THEN DOMAIN diffNested(k, l[k], r[k]) # {}
                    ELSE l[k] # r[k]}
  IN  [k \in updated |->
         IF k \in NestedKeys THEN diffNested(k, l[k], r[k]) ELSE r[k]]

\* diff(l, r) of two Column objects.
diffColumn(l, r) ==
  LET deleted == DOMAIN l \ DOMAIN r
      added   == DOMAIN r \ DOMAIN l
      common  == DOMAIN r \cap DOMAIN l
      updated == {k \in common :
                    IF k \in NestedKeys
                    THEN DOMAIN diffNested(k, l[k], r[k]) # {}
                    ELSE l[k] # r[k]}
  IN  [k \in deleted \cup added \cup updated |->
         IF k \in deleted THEN Undefined
         ELSE IF k \in updated /\ k \in NestedKeys
              THEN diffNested(k, l[k], r[k])
              ELSE r[k]]

\* difference(initialColumns, columns): an object keyed by column index.
difference(l, r) ==
  LET n == Max(Len(l), Len(r))
      changed == {i \in 1..n :
                    i > Len(l) \/ i > Len(r)
                    \/ DOMAIN diffColumn(l[i], r[i]) # {}}
  IN  [k \in {ToString(i - 1) : i \in changed} |->
         LET i == IndexOfKey(k, n)
         IN  IF i > Len(r) THEN Undefined
             ELSE IF i > Len(l) THEN r[i]
             ELSE diffColumn(l[i], r[i])]

\* lodash isEmpty of an object or an array.
isEmpty(v) == DOMAIN v = {}

----------------------------------------------------------------------------
(* FieldsEditor: the memoised derivations                                   *)

diff == difference(initialColumns, columns)

\* isDirty kept as a flag that is raised by the first edit.
isDirty_Stored == lastEdit.edited

isDirty == ~isEmpty(diff)

\* changes.<namespace>, or {} when the diff has no such key ({...undefined}).
SpreadOf(ch, ns) == IF ns \in DOMAIN ch THEN ch[ns] ELSE EmptyObject

\* The changesObject with the whole fieldOptions of the column forced in.
changesObject_FullFieldOptions(ch, c) ==
  Spread(ch,
         [baseOptions |->
            Spread(SpreadOf(ch, "baseOptions"),
                   [visibility |-> JsArray(c.baseOptions.visibility)]),
          fieldOptions |-> c.fieldOptions])

\* The changesObject without the forced visibility.
changesObject_NoForcedVisibility(ch, c) ==
  Spread(ch,
         [baseOptions |-> SpreadOf(ch, "baseOptions"),
          fieldOptions |-> SpreadOf(ch, "fieldOptions")])

\* The changesObject built for the diff entry of the column `c`.
changesObject(ch, c) ==
  Spread(ch,
         [baseOptions |->
            Spread(SpreadOf(ch, "baseOptions"),
                   [visibility |-> JsArray(c.baseOptions.visibility)]),
          fieldOptions |-> SpreadOf(ch, "fieldOptions")])

\* The diff entries whose column exists, as sequence indices.
ChangedIndices(d, cols) ==
  {i \in 1..Len(cols) : ToString(i - 1) \in DOMAIN d}

\* The changes object keyed by the index of the column instead of its name.
changesOf_KeyedByIndex(d, cols) ==
  [k \in {ToString(i - 1) : i \in ChangedIndices(d, cols)} |->
     changesObject(d[k], cols[IndexOfKey(k, Len(cols))])]

\* Object.fromEntries keeps the last entry of a repeated key; a diff entry
\* without a column yields the entry [], that is the key "undefined".
changesOf(d, cols) ==
  LET idx == ChangedIndices(d, cols)
      orphans == {k \in DOMAIN d :
                    \A i \in 1..Len(cols) : ToString(i - 1) # k}
      names == {cols[i].name : i \in idx}
  IN  [n \in names \cup (IF orphans # {} THEN {"undefined"} ELSE {}) |->
         IF n \in names
         THEN LET i == CHOOSE j \in idx :
                         /\ cols[j].name = n
                         /\ \A m \in idx : cols[m].name = n => m <= j
              IN  changesObject(d[ToString(i - 1)], cols[i])
         ELSE Undefined]

changes == changesOf(diff, columns)

----------------------------------------------------------------------------
(* FieldsEditor.setColumnOption                                             *)

\* findIndex: the first index whose name matches, 0 when there is none.
findIndex(cols, name) ==
  IF \E i \in 1..Len(cols) : cols[i].name = name
  THEN CHOOSE i \in 1..Len(cols) :
         /\ cols[i].name = name
         /\ \A j \in 1..(i - 1) : cols[j].name # name
  ELSE 0

\* The option written at the top level of the column, whatever its namespace.
withOption_Flat(c, path, value) == Spread(c, path[Len(path)] :> value)

\* The option name as it was passed: the segments joined by "." again.
Join(path) ==
  LET j[i \in 1..Len(path)] ==
        IF i = Len(path) THEN path[i] ELSE path[i] \o "." \o j[i + 1]
  IN  IF path = <<>> THEN "" ELSE j[1]

\* The top-level keys of a Column that hold a string.
StringKeys == {"name", "fieldType"}

\* { ...s } of a string: its characters keyed by index, for the strings a
\* column of this model holds.
Characters(s) ==
  LET chars == CASE s = "" -> <<>>
                 [] s = "id" -> <<"i", "d">>
                 [] s = "email" -> <<"e", "m", "a", "i", "l">>
                 [] s = "ghost" -> <<"g", "h", "o", "s", "t">>
                 [] s = "Text" -> <<"T", "e", "x", "t">>
                 [] s = "DateTime" ->
                      <<"D", "a", "t", "e", "T", "i", "m", "e">>
  IN  [k \in {ToString(i - 1) : i \in 1..Len(chars)} |->
         chars[IndexOfKey(k, Len(chars))]]

\* { ...column[namespace] }: {} when the column has no such key.
spreadNamespace(c, namespace) ==
  IF namespace \notin DOMAIN c THEN EmptyObject
  ELSE IF namespace \in StringKeys THEN Characters(c[namespace])
       ELSE c[namespace]

\* The column with the option at `path` replaced.  Only a name of exactly
\* two segments is taken apart; an empty namespace is falsy, and any other
\* name is written whole at the top level.
withOption(c, path, value) ==
  LET namespace == IF Len(path) = 2 THEN path[1] ELSE ""
      name == IF Len(path) = 2 THEN path[2] ELSE Join(path)
  IN  IF namespace # ""
      THEN Spread(c, namespace :>
                       Spread(spreadNamespace(c, namespace), name :> value))
      ELSE Spread(c, name :> value)

\* setColumnOption writing the new column at the head of the sequence.
setColumnOption_FirstIndex(cols, c, path, value) ==
  LET newColumn == withOption(c, path, value)
      index == findIndex(cols, c.name)
  IN  IF index > 0
      THEN [found |-> TRUE, column |-> <<newColumn>>,
            columns |-> [cols EXCEPT ![1] = newColumn]]
      ELSE [found |-> FALSE, column |-> <<>>, columns |-> cols]

\* setColumnOption copying the baseline instead of the working sequence.
setColumnOption_FromBaseline(cols, c, path, value) ==
  LET newColumn == withOption(c, path, value)
      index == findIndex(cols, c.name)
  IN  IF index > 0
      THEN [found |-> TRUE, column |-> <<newColumn>>,
            columns |-> [initialColumns EXCEPT ![index] = newColumn]]
      ELSE [found |-> FALSE, column |-> <<>>, columns |-> cols]

\* setColumnOption selecting the new column without looking at the index.
setColumnOption_NoIndexCheck(cols, c, path, value) ==
  LET newColumn == withOption(c, path, value)
      index == findIndex(cols, c.name)
  IN  [found |-> TRUE, column |-> <<newColumn>>,
       columns |-> IF index > 0 THEN [cols EXCEPT ![index] = newColumn]
                   ELSE cols]

\* setColumnOption without its setColumn(newColumn).
setColumnOption_KeepsSelected(cols, c, path, value) ==
  LET newColumn == withOption(c, path, value)
      index == findIndex(cols, c.name)
  IN  IF index > 0
      THEN [found |-> TRUE, column |-> <<c>>,
            columns |-> [cols EXCEPT ![index] = newColumn]]
      ELSE [found |-> FALSE, column |-> <<>>, columns |-> cols]

\* The state setColumnOption asks React to set, from the `columns` of the
\* render it was created in: found = FALSE when it sets nothing.
setColumnOption(cols, c, path, value) ==
  LET newColumn == withOption(c, path, value)
      index == findIndex(cols, c.name)
  IN  IF index > 0
      THEN [found |-> TRUE, column |-> <<newColumn>>,
            columns |-> [cols EXCEPT ![index] = newColumn]]
      ELSE [found |-> FALSE, column |-> <<>>, columns |-> cols]

----------------------------------------------------------------------------
(* ColumnEditor: the two constraint effects, run after a render             *)

\* The effect on baseOptions.required without its reset of nullable.
requiredEffect_NoReset(cols, c) == <<>>

\* The setColumnOption calls of the effect on baseOptions.required.
requiredEffect(cols, c) ==
  IF c.baseOptions.required
  THEN <<setColumnOption(cols, c, <<"baseOptions", "nullable">>, FALSE)>>
  ELSE <<>>

\* The effect on baseOptions.nullable emptying nullValues when the column
\* stops being nullable.
nullableEffect_ClearsOnFalse(cols, c) ==
  IF c.baseOptions.nullable
  THEN <<setColumnOption(cols, c, <<"baseOptions", "required">>, FALSE)>>
       \o (IF isEmpty(c.baseOptions.nullValues)
           THEN <<setColumnOption(cols, c, <<"baseOptions", "nullValues">>,
                                  <<"">>)>>
           ELSE <<>>)
  ELSE <<setColumnOption(cols, c, <<"baseOptions", "nullValues">>, <<>>)>>

\* The setColumnOption calls of the effect on baseOptions.nullable.
nullableEffect(cols, c) ==
  IF c.baseOptions.nullable
  THEN <<setColumnOption(cols, c, <<"baseOptions", "required">>, FALSE)>>
       \o (IF isEmpty(c.baseOptions.nullValues)
           THEN <<setColumnOption(cols, c, <<"baseOptions", "nullValues">>,
                                  <<"">>)>>
           ELSE <<>>)
  ELSE <<>>

\* The effects without dependency arrays: both run after every render.
effectCalls_EveryRender(d, cols, c) ==
  requiredEffect(cols, c) \o nullableEffect(cols, c)

\* The calls made by the effects of one commit of ColumnEditor, in order.
\* An effect runs on mount and whenever its dependency changed.
effectCalls(d, cols, c) ==
  (IF ~d.mounted \/ d.required # c.baseOptions.required
   THEN requiredEffect(cols, c) ELSE <<>>)
  \o
  (IF ~d.mounted \/ d.nullable # c.baseOptions.nullable
   THEN nullableEffect(cols, c) ELSE <<>>)

\* The state updates of one batch are applied in order: the last one wins.
Applied(calls) == SelectSeq(calls, LAMBDA r : r.found)

----------------------------------------------------------------------------
(* The record API route: handler, handleGET, handlePOST                     *)

Methods == {"GET", "POST", "PUT", "DELETE"}

\* req.body: an object without record, with an empty record, with a record.
Bodies ==
  {EmptyObject,
   [record |-> EmptyObject],
   [record |-> [name |-> "a"]],
   [record |-> [name |-> "a", email |-> "b"]]}

\* The requests reaching the route.  hasBody = FALSE is a request without a
\* body; dataSource is what getDataSourceFromRequest resolves the request
\* to, <<>> when it resolves to nothing; limit and offset are the query
\* strings, "" when absent.  The body varies where it is read (POST), limit
\* and offset where they are read (GET).
ApiRequests ==
  {r \in [method : Methods, hasBody : BOOLEAN, body : Bodies,
          dataSource : {<<>>, <<"ds">>}, tableName : {"users"},
          limit : {"", "5"}, offset : {"", "0"}] :
     /\ ~r.hasBody => r.body = EmptyObject
     /\ r.method # "POST" => ~r.hasBody
     /\ r.method # "GET" => (r.limit = "" /\ r.offset = "")}

NoResponse == [sent |-> FALSE, status |-> 200, body |-> [kind |-> "none"]]

\* The requests the route can be handling at a time.
Slots == 1..MaxInFlight

ApiIdle ==
  [pc |-> "idle",
   req |-> [method |-> "GET", hasBody |-> FALSE, body |-> EmptyObject,
            dataSource |-> <<>>, tableName |-> "users", limit |-> "",
            offset |-> ""],
   res |-> NoResponse, lookups |-> 0, queries |-> <<>>]

\* res.status(404).send("")
NotFound == [sent |-> TRUE, status |-> 404, body |-> [kind |-> "empty"]]

\* res.send(ApiResponse.withError(message))
WithError(message) ==
  [sent |-> TRUE, status |-> 200,
   body |-> [kind |-> "error", message |-> message]]

\* res.json(ApiResponse.withData(...))
WithData(message) ==
  [sent |-> TRUE, status |-> 200,
   body |-> [kind |-> "data", message |-> message]]

\* s ? parseInt(s, 10) : null, with null as <<>>; "" is falsy and "0" is not.
parseIntOrNull(s) ==
  IF s = "" THEN <<>> ELSE <<CHOOSE n \in 0..9 : ToString(n) = s>>

\* !req?.body?.record || Object.keys(req.body.record).length === 0
recordMissing(req) ==
  \/ ~req.hasBody
  \/ "record" \notin DOMAIN req.body
  \/ DOMAIN req.body.record = {}


----------------------------------------------------------------------------
(* State machine                                                            *)

NoEdit ==
  [kind |-> "none", path |-> <<>>, prev |-> <<>>, next |-> <<>>,
   edited |-> FALSE]

Init ==
  /\ initialColumns \in Baselines
  /\ columns = initialColumns
  /\ column = <<>>
  /\ deps = [mounted |-> FALSE, required |-> FALSE, nullable |-> FALSE]
  /\ phase = "mount"
  /\ edits = 0
  /\ lastEdit = NoEdit
  /\ requests = <<>>
  /\ mutations = <<>>
  /\ reloaded = 0
  /\ api = [s \in Slots |-> ApiIdle]

\* The mount effect of FieldsEditor selects the first column.
MountEffect ==
  /\ phase = "mount"
  /\ IF Len(columns) > 0
     THEN column' = <<columns[1]>> /\ phase' = "render"
     ELSE column' = column /\ phase' = "idle"
  /\ UNCHANGED api
  /\ UNCHANGED <<initialColumns, columns, deps, edits, lastEdit, save>>

\* React renders ColumnEditor with the selected column and runs its effects.
Commit ==
  /\ phase = "render"
  /\ column # <<>>
  /\ LET c == column[1]
         applied == Applied(effectCalls(deps, columns, c))
     IN  /\ deps' = [mounted |-> TRUE,
                     required |-> c.baseOptions.required,
                     nullable |-> c.baseOptions.nullable]
         /\ IF applied # <<>>
            THEN /\ column' = applied[Len(applied)].column
                 /\ columns' = applied[Len(applied)].columns
                 /\ phase' = "render"
            ELSE /\ UNCHANGED <<column, columns>>
                 /\ phase' = "idle"
  /\ UNCHANGED api
  /\ UNCHANGED <<initialColumns, edits, lastEdit, save>>

\* A click on an entry of the column list.
SelectColumn(i) ==
  /\ phase = "idle"
  /\ edits < MaxEdits
  /\ i \in 1..Len(columns)
  /\ column' = <<columns[i]>>
  /\ phase' = "render"
  /\ edits' = edits + 1
  /\ lastEdit' = [kind |-> "select", path |-> <<>>, prev |-> column,
                  next |-> <<columns[i]>>, edited |-> lastEdit.edited]
  /\ UNCHANGED api
  /\ UNCHANGED <<initialColumns, columns, deps, save>>

\* An event handler of ColumnEditor calling setColumnOption(column, ...).
Edit(path, value) ==
  /\ phase = "idle"
  /\ edits < MaxEdits
  /\ column # <<>>
  /\ LET r == setColumnOption(columns, column[1], path, value)
     IN  /\ IF r.found
            THEN column' = r.column /\ columns' = r.columns
                 /\ phase' = "render"
            ELSE UNCHANGED <<column, columns, phase>>
         /\ lastEdit' = [kind |-> "edit", path |-> path, prev |-> column,
                         next |-> <<withOption(column[1], path, value)>>,
                         edited |-> TRUE]
  /\ edits' = edits + 1
  /\ UNCHANGED api
  /\ UNCHANGED <<initialColumns, deps, save>>

SetFieldType(v) == Edit(<<"fieldType">>, v)

ToggleDisconnected ==
  /\ column # <<>>
  /\ Edit(<<"baseOptions", "disconnected">>,
          ~column[1].baseOptions.disconnected)

\* CheckboxGroup hands over the value with the flag appended or filtered out.
ToggleVisibility(flag) ==
  /\ column # <<>>
  /\ ~column[1].baseOptions.disconnected
  /\ LET value == column[1].baseOptions.visibility
     IN  Edit(<<"baseOptions", "visibility">>,
              IF flag \in Range(value)
              THEN SelectSeq(value, LAMBDA v : v # flag)
              ELSE Append(value, flag))

SetLabel(v) == Edit(<<"baseOptions", "label">>, v)

SetPlaceholder(v) == Edit(<<"baseOptions", "placeholder">>, v)

SetHelp(v) == Edit(<<"baseOptions", "help">>, v)

SetDefaultValue(v) ==
  /\ column # <<>>
  /\ column[1].fieldType \notin {"DateTime", "Id"}
  /\ Edit(<<"baseOptions", "defaultValue">>, v)

ToggleRequired ==
  /\ column # <<>>
  /\ Edit(<<"baseOptions", "required">>, ~column[1].baseOptions.required)

\* The Nullable checkbox without isDisabled.
ToggleNullable_AlwaysEnabled ==
  /\ column # <<>>
  /\ Edit(<<"baseOptions", "nullable">>, ~column[1].baseOptions.nullable)

ToggleNullable ==
  /\ column # <<>>
  /\ column[1].dataSourceInfo.nullable # FALSE
  /\ Edit(<<"baseOptions", "nullable">>, ~column[1].baseOptions.nullable)

ToggleNullValue(value) ==
  /\ column # <<>>
  /\ column[1].baseOptions.nullable = TRUE
  /\ LET nullValues == column[1].baseOptions.nullValues
     IN  Edit(<<"baseOptions", "nullValues">>,
              IF value \notin Range(nullValues)
              THEN Append(nullValues, value)
              ELSE SelectSeq(nullValues, LAMBDA v : v # value))

\* The inspector of the field type edits one of the fieldOptions.
SetFieldOption(key, v) == Edit(<<"fieldOptions", key>>, v)

\* A column that is not part of the table.
UnknownColumn == MkColumn("ghost", FALSE, FALSE, <<>>, TRUE)

\* A caller holding setColumnOption (the inspector receives it as a prop)
\* passes a column whose name is not in `columns`.
SetOptionOfUnknownColumn(path, value) ==
  /\ phase = "idle"
  /\ edits < MaxEdits
  /\ LET r == setColumnOption(columns, UnknownColumn, path, value)
     IN  IF r.found
         THEN column' = r.column /\ columns' = r.columns
              /\ phase' = "render"
         ELSE UNCHANGED <<column, columns, phase>>
  /\ lastEdit' = [kind |-> "unknown", path |-> path, prev |-> column,
                  next |-> <<withOption(UnknownColumn, path, value)>>,
                  edited |-> lastEdit.edited]
  /\ edits' = edits + 1
  /\ UNCHANGED api
  /\ UNCHANGED <<initialColumns, deps, save>>

\* The status of the mutation hook: the one of the request sent last.
saveStatus ==
  IF mutations = <<>> THEN "uninitialized"
  ELSE mutations[Len(mutations)].status

\* isUpdating of the mutation hook.
isUpdating == saveStatus = "pending"

\* The entry of a request that was just handed to updateTable.
Pending(cols) == [status |-> "pending", columns |-> cols]

\* saveTableSettings calling updateTable twice.
Save_SendsTwice ==
  /\ phase = "idle"
  /\ edits < MaxEdits
  /\ isDirty
  /\ requests' = Append(Append(requests, [changes |-> changes]),
                        [changes |-> changes])
  /\ mutations' = Append(Append(mutations, Pending(columns)),
                         Pending(columns))
  /\ edits' = edits + 1
  /\ lastEdit' = [kind |-> "save", path |-> <<>>, prev |-> column,
                  next |-> column, edited |-> lastEdit.edited]
  /\ UNCHANGED api
  /\ UNCHANGED <<initialColumns, columns, column, deps, phase, reloaded>>

\* The Save button without disabled={!isDirty}.
Save_AlwaysEnabled ==
  /\ phase = "idle"
  /\ edits < MaxEdits
  /\ requests' = Append(requests, [changes |-> changes])
  /\ mutations' = Append(mutations, Pending(columns))
  /\ edits' = edits + 1
  /\ lastEdit' = [kind |-> "save", path |-> <<>>, prev |-> column,
                  next |-> column, edited |-> lastEdit.edited]
  /\ UNCHANGED api
  /\ UNCHANGED <<initialColumns, columns, column, deps, phase, reloaded>>

\* A click on "Save settings": saveTableSettings hands the current changes
\* to updateTable.  The button gets disabled={!isDirty}; saveTableSettings
\* has no guard of its own, so a click while an earlier request is still
\* pending sends another one.
Save ==
  /\ phase = "idle"
  /\ edits < MaxEdits
  /\ isDirty
  /\ requests' = Append(requests, [changes |-> changes])
  /\ mutations' = Append(mutations, Pending(columns))
  /\ edits' = edits + 1
  /\ lastEdit' = [kind |-> "save", path |-> <<>>, prev |-> column,
                  next |-> column, edited |-> lastEdit.edited]
  /\ UNCHANGED api
  /\ UNCHANGED <<initialColumns, columns, column, deps, phase, reloaded>>

\* The persistence collaborator accepts the request k: the columns are
\* loaded again and the working state the request was sent for becomes the
\* baseline.
SaveSucceeds(k) ==
  /\ k \in 1..Len(mutations)
  /\ mutations[k].status = "pending"
  /\ mutations' = [mutations EXCEPT ![k].status = "fulfilled"]
  /\ initialColumns' = mutations[k].columns
  /\ reloaded' = k
  /\ UNCHANGED api
  /\ UNCHANGED <<columns, column, deps, phase, edits, lastEdit, requests>>

\* The persistence collaborator rejects the request k or cannot be reached:
\* nothing is sent again and the baseline stays.
SaveFails(k) ==
  /\ k \in 1..Len(mutations)
  /\ mutations[k].status = "pending"
  /\ mutations' = [mutations EXCEPT ![k].status = "rejected"]
  /\ UNCHANGED api
  /\ UNCHANGED <<initialColumns, columns, column, deps, phase, edits,
                 lastEdit, requests, reloaded>>

Next ==
  \/ MountEffect
  \/ Commit
  \/ \E i \in 1..2 : SelectColumn(i)
  \/ \E v \in FieldTypes : SetFieldType(v)
  \/ ToggleDisconnected
  \/ \E flag \in Range(VisibilityFlags) : ToggleVisibility(flag)
  \/ \E v \in Texts : SetLabel(v)
  \/ \E v \in Texts : SetPlaceholder(v)
  \/ \E v \in Texts : SetHelp(v)
  \/ \E v \in Texts : SetDefaultValue(v)
  \/ ToggleRequired
  \/ ToggleNullable
  \/ \E value \in Range(NULL_VALUES) : ToggleNullValue(value)
  \/ \E key \in FieldOptionKeys, v \in Texts : SetFieldOption(key, v)
  \/ \E v \in Texts : SetOptionOfUnknownColumn(<<"baseOptions", "label">>, v)
  \/ Save
  \/ \E k \in 1..MaxEdits : SaveSucceeds(k)
  \/ \E k \in 1..MaxEdits : SaveFails(k)

Spec == Init /\ [][Next]_vars

\* React always runs a pending render and its effects.
FairSpec == Spec /\ WF_vars(MountEffect) /\ WF_vars(Commit)

TypeOK ==
  /\ Len(column) <= 1
  /\ phase \in {"mount", "render", "idle"}
  /\ edits \in 0..MaxEdits
  /\ saveStatus \in {"uninitialized", "pending", "fulfilled", "rejected"}
  /\ Len(requests) <= edits
  /\ Len(mutations) = Len(requests)
  /\ reloaded \in 0..Len(requests)

----------------------------------------------------------------------------
(* The record API route: the steps of a request.  The handler is an async   *)
(* function without a lock: it returns to the event loop at every await, so *)
(* the steps of the requests in flight interleave.                          *)

\* The positions at which a handler is suspended at an await.
Suspended ==
  {"GET", "GET:service", "GET:queries",
   "POST:lookup", "POST:service", "POST:queries"}

\* The slots that hold no request in flight.
Free == {s \in Slots : api[s].pc \in {"idle", "done", "rejected"}}

\* A request arrives at the route (after the middlewares let it through),
\* whatever the other requests in flight are doing.  It is given the first
\* free slot.
ApiReceive(s, req) ==
  /\ s \in Free
  /\ \A t \in Free : s <= t
  /\ api' = [api EXCEPT ![s] = [pc |-> "handler", req |-> req,
                                res |-> NoResponse, lookups |-> 0,
                                queries |-> <<>>]]
  /\ UNCHANGED editor

\* handler: the switch on req.method.  handleGET calls
\* getDataSourceFromRequest at once and is suspended at its await.
handler(s) ==
  /\ api[s].pc = "handler"
  /\ api' = IF api[s].req.method = "GET"
            THEN [api EXCEPT ![s].pc = "GET", ![s].lookups = @ + 1]
            ELSE IF api[s].req.method = "POST"
                 THEN [api EXCEPT ![s].pc = "POST"]
                 ELSE [api EXCEPT ![s].pc = "done", ![s].res = NotFound]
  /\ UNCHANGED editor

\* handleGET when the lookup has resolved: the 404, or the call of
\* getQueryService and its await.
handleGET_lookup(s) ==
  /\ api[s].pc = "GET"
  /\ api' = IF api[s].req.dataSource = <<>>
            THEN [api EXCEPT ![s].pc = "done", ![s].res = NotFound]
            ELSE [api EXCEPT ![s].pc = "GET:service"]
  /\ UNCHANGED editor

\* handleGET when getQueryService has resolved: both queries are issued
\* and the handler is suspended at the await of service.runQueries.
handleGET_query(s) ==
  /\ api[s].pc = "GET:service"
  /\ api' = [api EXCEPT
       ![s].pc = "GET:queries",
       ![s].queries = @ \o
         <<[name |-> "getRecords", tableName |-> api[s].req.tableName,
            limit |-> parseIntOrNull(api[s].req.limit),
            offset |-> parseIntOrNull(api[s].req.offset)],
           [name |-> "getRecordsCount", tableName |-> api[s].req.tableName,
            limit |-> <<>>, offset |-> <<>>]>>]
  /\ UNCHANGED editor

\* handleGET when the queries have resolved: the response is sent.
handleGET_respond(s) ==
  /\ api[s].pc = "GET:queries"
  /\ api' = [api EXCEPT ![s].pc = "done", ![s].res = WithData("")]
  /\ UNCHANGED editor

\* handlePOST accepting every record that is present, empty or not.
handlePOST_check_AcceptsEmpty(s) ==
  /\ api[s].pc = "POST"
  /\ api' = IF \/ ~api[s].req.hasBody
               \/ "record" \notin DOMAIN api[s].req.body
            THEN [api EXCEPT ![s].pc = "done",
                             ![s].res = WithError("No record sent.")]
            ELSE [api EXCEPT ![s].pc = "POST:lookup", ![s].lookups = @ + 1]
  /\ UNCHANGED editor

\* handlePOST up to its first await: the check of the record, then the call
\* of getDataSourceFromRequest.
handlePOST_check(s) ==
  /\ api[s].pc = "POST"
  /\ api' = IF recordMissing(api[s].req)
            THEN [api EXCEPT ![s].pc = "done",
                             ![s].res = WithError("No record sent.")]
            ELSE [api EXCEPT ![s].pc = "POST:lookup", ![s].lookups = @ + 1]
  /\ UNCHANGED editor

\* handlePOST when the lookup has resolved: the 404, or the call of
\* getQueryService and its await.
handlePOST_lookup(s) ==
  /\ api[s].pc = "POST:lookup"
  /\ api' = IF api[s].req.dataSource = <<>>
            THEN [api EXCEPT ![s].pc = "done", ![s].res = NotFound]
            ELSE [api EXCEPT ![s].pc = "POST:service"]
  /\ UNCHANGED editor

\* handlePOST when getQueryService has resolved: createRecord is issued and
\* the handler is suspended at the await of service.runQuery.
handlePOST_query(s) ==
  /\ api[s].pc = "POST:service"
  /\ api' = [api EXCEPT
       ![s].pc = "POST:queries",
       ![s].queries = @ \o
         <<[name |-> "createRecord", tableName |-> api[s].req.tableName,
            record |-> api[s].req.body.record]>>]
  /\ UNCHANGED editor

\* handlePOST when the query has resolved: the response is sent.
handlePOST_respond(s) ==
  /\ api[s].pc = "POST:queries"
  /\ api' = [api EXCEPT ![s].pc = "done",
                        ![s].res = WithData("Record added")]
  /\ UNCHANGED editor

\* The promise a handler awaits rejects: the handler has no try/catch, so
\* its own promise rejects and it sends no response.
awaitRejects(s) ==
  /\ api[s].pc \in Suspended
  /\ api' = [api EXCEPT ![s].pc = "rejected"]
  /\ UNCHANGED editor

ApiNext ==
  \/ \E s \in Slots, req \in ApiRequests : ApiReceive(s, req)
  \/ \E s \in Slots : handler(s)
  \/ \E s \in Slots : handleGET_lookup(s)
  \/ \E s \in Slots : handleGET_query(s)
  \/ \E s \in Slots : handleGET_respond(s)
  \/ \E s \in Slots : handlePOST_check(s)
  \/ \E s \in Slots : handlePOST_lookup(s)
  \/ \E s \in Slots : handlePOST_query(s)
  \/ \E s \in Slots : handlePOST_respond(s)
  \/ \E s \in Slots : awaitRejects(s)

\* The route is served next to an editor that stays as it was opened; the
\* route reads nothing of it, so one table stands for all.
ApiInit ==
  /\ Init
  /\ initialColumns = <<MkColumn("id", TRUE, FALSE, <<>>, FALSE),
                        MkColumn("email", FALSE, FALSE, <<>>, TRUE)>>

ApiSpec == ApiInit /\ [][ApiNext]_vars

----------------------------------------------------------------------------
(* Properties                                                               *)

\* The working entry the last user event was about.
EditedEntry == columns[findIndex(columns, lastEdit.next[1].name)]

LastEditSet(option, value) ==
  /\ lastEdit.kind = "edit"
  /\ lastEdit.path = <<"baseOptions", option>>
  /\ lastEdit.next[1].baseOptions[option] = value

\* C1: once the effects of the last event have run, no working column has
\* required and nullable both true (I1).
C1_RequiredNullableExclusive ==
  phase = "idle" =>
    \A i \in 1..Len(columns) :
      ~(columns[i].baseOptions.required /\ columns[i].baseOptions.nullable)

\* C2: after nullable is set to true on a column whose nullValues is empty,
\* and the effects have run, the working entry has nullable = true,
\* nullValues = [""] and required = false (R2).
C2_NullablePostcondition ==
  (/\ phase = "idle"
   /\ LastEditSet("nullable", TRUE)
   /\ isEmpty(lastEdit.prev[1].baseOptions.nullValues))
  => /\ EditedEntry.baseOptions.nullable = TRUE
     /\ EditedEntry.baseOptions.nullValues = <<"">>
     /\ EditedEntry.baseOptions.required = FALSE

\* C3: after required is set to true on a column, and the effects have run,
\* the working entry has required = true and nullable = false (R1).
C3_RequiredPostcondition ==
  (phase = "idle" /\ LastEditSet("required", TRUE))
  => /\ EditedEntry.baseOptions.required = TRUE
     /\ EditedEntry.baseOptions.nullable = FALSE

\* The required checkbox was checked on a column that was nullable, and the
\* effects have run.
C3_Witness ==
  /\ phase = "idle"
  /\ LastEditSet("required", TRUE)
  /\ lastEdit.prev[1].baseOptions.nullable = TRUE
  /\ EditedEntry.baseOptions.nullable = FALSE

\* C4: once the effects of the last event have run, every working column
\* with nullable = true has a non-empty nullValues (I2).
C4_NullableHasNullValues ==
  phase = "idle" =>
    \A i \in 1..Len(columns) :
      columns[i].baseOptions.nullable = TRUE
        => ~isEmpty(columns[i].baseOptions.nullValues)

\* C5: whenever visibility or nullValues of a working column differs from
\* the baseline, the patch of that column carries the field as the complete
\* array of the working column.
C5_ArraysCompleteInPatch ==
  \A i \in 1..Len(columns) : \A f \in ArrayKeys :
    columns[i].baseOptions[f] # initialColumns[i].baseOptions[f]
      => /\ columns[i].name \in DOMAIN changes
         /\ f \in DOMAIN changes[columns[i].name].baseOptions
         /\ changes[columns[i].name].baseOptions[f]
              = JsArray(columns[i].baseOptions[f])

\* The indices at which the working column differs from the baseline.
Differing ==
  {i \in 1..Len(columns) : columns[i] # initialColumns[i]}

\* C6: the keys of the change-set are exactly the names of the working
\* columns that differ from their baseline column.
C6_ChangeSetKeys ==
  DOMAIN changes = {columns[i].name : i \in Differing}

\* Only the second column was changed and the change-set has its name as
\* the only key.
C6_Witness ==
  /\ Differing = {2}
  /\ DOMAIN changes = {columns[2].name}
  /\ columns[1].name \notin DOMAIN changes

\* The fieldOptions leaves at which the working column i differs.
ChangedFieldOptions(i) ==
  {k \in DOMAIN columns[i].fieldOptions :
     columns[i].fieldOptions[k] # initialColumns[i].fieldOptions[k]}

\* C7 as stated: a patch of a column with a changed fieldOptions leaf
\* carries the full fieldOptions object of the working column.
C7_FullFieldOptions ==
  \A i \in Differing :
    ChangedFieldOptions(i) # {}
      => changes[columns[i].name].fieldOptions = columns[i].fieldOptions

\* C7, amended: the fieldOptions of every patch holds exactly the changed
\* fieldOptions leaves of the working column, with their working values.
C7_ChangedFieldOptionsOnly ==
  \A i \in Differing :
    LET patch == changes[columns[i].name]
    IN  /\ "fieldOptions" \in DOMAIN patch
        /\ DOMAIN patch.fieldOptions = ChangedFieldOptions(i)
        /\ \A k \in ChangedFieldOptions(i) :
             patch.fieldOptions[k] = columns[i].fieldOptions[k]

\* One of the two fieldOptions of a column was changed, and its patch holds
\* that one only.
C7_Witness ==
  \E i \in Differing :
    /\ Cardinality(ChangedFieldOptions(i)) = 1
    /\ DOMAIN changes[columns[i].name].fieldOptions = ChangedFieldOptions(i)
    /\ DOMAIN columns[i].fieldOptions # ChangedFieldOptions(i)

\* C8: every patch of the change-set carries baseOptions.visibility, equal
\* to the full visibility of the working column.
C8_PatchHasFullVisibility ==
  \A i \in 1..Len(columns) :
    columns[i].name \in DOMAIN changes
      => LET patch == changes[columns[i].name]
         IN  /\ "baseOptions" \in DOMAIN patch
             /\ "visibility" \in DOMAIN patch.baseOptions
             /\ patch.baseOptions.visibility
                  = JsArray(columns[i].baseOptions.visibility)

\* A column was changed, its visibility was not, and the patch has it.
C8_Witness ==
  \E i \in Differing :
    /\ columns[i].baseOptions.visibility
         = initialColumns[i].baseOptions.visibility
    /\ changes[columns[i].name].baseOptions.visibility
         = JsArray(columns[i].baseOptions.visibility)

\* C9: isDirty holds exactly when the change-set has a key, and exactly
\* when the working sequence differs from the baseline.
C9_DirtyIffDiffers ==
  /\ isDirty <=> (DOMAIN changes # {})
  /\ isDirty <=> (columns # initialColumns)

\* An edit that changed the column brought the working sequence back to the
\* baseline, and isDirty is false again.
C9_Witness ==
  /\ edits >= 2
  /\ lastEdit.kind = "edit"
  /\ lastEdit.prev # lastEdit.next
  /\ columns = initialColumns
  /\ ~isDirty

\* C10: the working sequence has the length of the baseline and the same
\* name at every index.
C10_IndexAligned ==
  /\ Len(columns) = Len(initialColumns)
  /\ \A i \in 1..Len(columns) : columns[i].name = initialColumns[i].name

\* Both columns were edited.
C10_Witness ==
  /\ phase = "idle"
  /\ Differing = {1, 2}

\* The derivations of FieldsEditor unchanged by a step: the diff, isDirty
\* and the change-set after it are the ones before it.
DerivationsUnchanged ==
  /\ difference(initialColumns', columns')
       = difference(initialColumns, columns)
  /\ isEmpty(difference(initialColumns', columns'))
       = isEmpty(difference(initialColumns, columns))
  /\ changesOf(difference(initialColumns', columns'), columns')
       = changesOf(difference(initialColumns, columns), columns)

\* A step that is the handler of a user event of the given kind.
UserEvent(kind) == edits' = edits + 1 /\ lastEdit'.kind = kind

\* C11: a step changes the working sequence at most at the index of the
\* column that setColumnOption was called with, and only the reload after a
\* successful save replaces the baseline.
C11_MutationFrame ==
  [][/\ Len(columns') = Len(columns)
     /\ \A j \in 1..Len(columns) :
          columns'[j] # columns[j]
            => /\ column' # <<>>
               /\ j = findIndex(columns, column'[1].name)
     /\ initialColumns' # initialColumns
          => \E k \in 1..Len(mutations) :
               /\ mutations[k].status = "pending"
               /\ mutations'[k].status = "fulfilled"]_vars

\* An edit changed one column while the other one keeps an earlier change,
\* and the baseline is the loaded one.
C11_Witness ==
  /\ lastEdit.kind = "edit"
  /\ lastEdit.prev # lastEdit.next
  /\ reloaded = 0
  /\ \E j \in 1..Len(columns) :
       /\ columns[j].name # lastEdit.next[1].name
       /\ columns[j] # initialColumns[j]

\* C12: setColumnOption with a column whose name is not in the working
\* sequence changes neither the working sequence, the selected column, the
\* diff, isDirty nor the change-set.
C12_UnknownColumnNoOp ==
  [][UserEvent("unknown")
       => /\ columns' = columns
          /\ column' = column
          /\ phase' = phase
          /\ DerivationsUnchanged]_vars

\* The call with the unknown column was made while the editor was dirty.
C12_Witness ==
  /\ lastEdit.kind = "unknown"
  /\ isDirty
  /\ \A i \in 1..Len(columns) : columns[i].name # lastEdit.next[1].name

\* C13: dataSourceInfo of a working column is the loaded one, and a column
\* whose dataSourceInfo.nullable is false has baseOptions.nullable = false.
C13_DataSourceNullable ==
  \A i \in 1..Len(columns) :
    /\ columns[i].dataSourceInfo = initialColumns[i].dataSourceInfo
    /\ columns[i].dataSourceInfo.nullable = FALSE
         => columns[i].baseOptions.nullable = FALSE

\* The user edited a column that is not nullable in the data source.
C13_Witness ==
  /\ phase = "idle"
  /\ lastEdit.kind = "edit"
  /\ lastEdit.prev # lastEdit.next
  /\ lastEdit.next[1].dataSourceInfo.nullable = FALSE
  /\ EditedEntry.baseOptions.nullable = FALSE

\* C14: a request is sent by a click on Save only, one per click, carrying
\* the change-set of that moment; a failing request, whichever of those in
\* flight it is, sends nothing more and leaves the working sequence and the
\* selected column as they are.
C14_SaveOneShot ==
  [][/\ requests' # requests => UserEvent("save")
     /\ UserEvent("save")
          => requests' = Append(requests, [changes |-> changes])
     /\ (\E k \in 1..Len(mutations) :
            /\ mutations[k].status = "pending"
            /\ mutations'[k].status = "rejected")
          => /\ requests' = requests
             /\ columns' = columns
             /\ column' = column
             /\ DerivationsUnchanged]_vars

\* Two requests were sent, the second while the first was pending; the
\* first failed, and the change-set that was sent is still there.
C14_Witness ==
  /\ Len(requests) = 2
  /\ mutations[1].status = "rejected"
  /\ mutations[2].status = "pending"
  /\ isDirty
  /\ changes = requests[1].changes

\* C15: once the request of the last click on Save has succeeded, as the
\* last one to succeed, and the user has done nothing since that click, the
\* baseline equals the working sequence, the diff is empty and isDirty is
\* false.
C15_BaselineAfterSave ==
  (/\ reloaded > 0
   /\ reloaded = Len(requests)
   /\ lastEdit.kind = "save")
    => /\ initialColumns = columns
       /\ isEmpty(diff)
       /\ ~isDirty

\* A save of an edited table succeeded.
C15_Witness ==
  /\ saveStatus = "fulfilled"
  /\ reloaded = Len(requests)
  /\ lastEdit.kind = "save"
  /\ lastEdit.edited
  /\ Len(requests) >= 1
  /\ initialColumns = columns

\* C16: a pending render with its effects always leads to a state in which
\* nothing is pending.
C16_EffectsTerminate == (phase = "render") ~> (phase = "idle")

\* An effect changed the column the user had edited, and nothing is pending.
C16_Witness ==
  /\ phase = "idle"
  /\ lastEdit.kind = "edit"
  /\ EditedEntry # lastEdit.next[1]

\* The options without a constraint rule.
UnconstrainedPaths ==
  {<<"fieldType">>, <<"baseOptions", "label">>,
   <<"baseOptions", "placeholder">>, <<"baseOptions", "help">>,
   <<"baseOptions", "defaultValue">>, <<"baseOptions", "disconnected">>,
   <<"baseOptions", "visibility">>}

\* C17: after required or nullable was set to false, or an option without a
\* rule was set, and the effects have run, the working entry is the edited
\* column with that one option replaced.
C17_RulesFireOnlyOnTrue ==
  (/\ phase = "idle"
   /\ lastEdit.kind = "edit"
   /\ \/ lastEdit.path \in UnconstrainedPaths
      \/ LastEditSet("required", FALSE)
      \/ LastEditSet("nullable", FALSE))
  => /\ EditedEntry = lastEdit.next[1]
     /\ EditedEntry = withOption(lastEdit.prev[1], lastEdit.path,
                                 IF Len(lastEdit.path) = 1
                                 THEN EditedEntry[lastEdit.path[1]]
                                 ELSE EditedEntry[lastEdit.path[1]]
                                                 [lastEdit.path[2]])

\* Nullable was unchecked on a column with null values, which it keeps.
C17_Witness ==
  /\ phase = "idle"
  /\ LastEditSet("nullable", FALSE)
  /\ lastEdit.prev[1].baseOptions.nullable = TRUE
  /\ EditedEntry.baseOptions.nullValues # <<>>
  /\ EditedEntry.baseOptions.nullValues
       = lastEdit.prev[1].baseOptions.nullValues

\* C18: the selected column is the working entry of the same name.
C18_SelectedMatchesStore ==
  column # <<>>
    => /\ findIndex(columns, column[1].name) > 0
       /\ column[1] = columns[findIndex(columns, column[1].name)]

\* The selected column was edited and an effect changed it again.
C18_Witness ==
  /\ phase = "idle"
  /\ lastEdit.kind = "edit"
  /\ column # <<>>
  /\ column[1] # lastEdit.next[1]
  /\ column[1] = EditedEntry

\* C19: as long as the user has set no option, the working sequence equals
\* the baseline and isDirty is false.
C19_SelectingIsNotEditing ==
  ~lastEdit.edited => (columns = initialColumns /\ ~isDirty)

\* Another column was selected, an effect of ColumnEditor had its condition
\* true for it, and no option was set.
C19_Witness ==
  /\ phase = "idle"
  /\ ~lastEdit.edited
  /\ lastEdit.kind = "select"
  /\ lastEdit.prev # lastEdit.next
  /\ column[1].baseOptions.required # lastEdit.prev[1].baseOptions.required
  /\ column[1].baseOptions.required \/ column[1].baseOptions.nullable

\* C20: every request handed to updateTable carries a change-set with at
\* least one key, and every key is the name of a loaded column.
C20_RequestsCarryChanges ==
  \A k \in 1..Len(requests) :
    /\ DOMAIN requests[k].changes # {}
    /\ DOMAIN requests[k].changes
         \subseteq {initialColumns[i].name : i \in 1..Len(initialColumns)}

\* Two requests are in flight.
C20_Witness ==
  /\ isUpdating
  /\ Len(requests) = 2
  /\ mutations[1].status = "pending"
  /\ DOMAIN requests[1].changes # {}
  /\ DOMAIN requests[2].changes # {}

\* The request in the slot s carries no record or an empty one.
NoRecordSent(s) ==
  \/ ~api[s].req.hasBody
  \/ "record" \notin DOMAIN api[s].req.body
  \/ DOMAIN api[s].req.body.record = {}

\* C21: whatever else is in flight, a POST without a record or with an empty
\* one is answered with the error "No record sent." before any data source
\* lookup and issues no query; a GET, or a POST with a record, whose data
\* source does not resolve is answered 404 and issues no query; any other
\* method is answered 404.
C21_RecordApi ==
  \A s \in Slots :
    api[s].pc # "idle" =>
      /\ (api[s].req.method = "POST" /\ NoRecordSent(s))
           => /\ api[s].queries = <<>>
              /\ api[s].lookups = 0
              /\ api[s].pc # "rejected"
              /\ api[s].pc = "done"
                   => api[s].res = WithError("No record sent.")
      /\ (/\ \/ api[s].req.method = "GET"
             \/ api[s].req.method = "POST" /\ ~NoRecordSent(s)
          /\ api[s].req.dataSource = <<>>)
           => /\ api[s].queries = <<>>
              /\ api[s].pc = "done"
                   => (api[s].res = NotFound /\ api[s].lookups = 1)
      /\ api[s].req.method \notin {"GET", "POST"}
           => /\ api[s].queries = <<>>
              /\ api[s].lookups = 0
              /\ api[s].pc # "rejected"
              /\ api[s].pc = "done" => api[s].res = NotFound

\* A POST with an empty record for a data source that does not resolve was
\* answered with the error, without a lookup, while another request was
\* suspended with its queries issued.
C21_Witness ==
  \E s, t \in Slots :
    /\ s # t
    /\ api[s].pc = "done"
    /\ api[s].req.method = "POST"
    /\ api[s].req.hasBody
    /\ "record" \in DOMAIN api[s].req.body
    /\ NoRecordSent(s)
    /\ api[s].req.dataSource = <<>>
    /\ api[s].res = WithError("No record sent.")
    /\ api[s].lookups = 0
    /\ api[t].pc \in {"GET:queries", "POST:queries"}
    /\ api[t].queries # <<>>

====
